---- MODULE Spec2Model ----
(***************************************************************************)
(* Model of the EKS cluster query servers of this repository:              *)
(*   server-simple.py         HTTP/REST server talking to the cluster API  *)
(*   server-enhanced.py       MCP server talking to the cluster API        *)
(*   server-claude-bridge.py  MCP server calling the HTTP server           *)
(* A run starts one installation (the HTTP server with the bridge in front *)
(* of it, or the enhanced MCP server), resolves the Kubernetes credentials *)
(* once and then serves requests one at a time while the cluster and the   *)
(* availability of its API change underneath.                              *)
(***************************************************************************)
EXTENDS Integers, Sequences, FiniteSets, TLC

VARIABLES
    deployment,  \* "http": server-simple.py (+ bridge); "enhanced": server-enhanced.py
    pc,          \* module-level start-up: "start", "fallback", "serving"
    configSrc,   \* credentials in use: "unset", "incluster", "kubeconfig", "none"
    cluster,     \* namespaces, nodes, pods and deployments of the cluster
    upstream,    \* what the cluster API answers: "up", "api403", "api500", "down"
    link,        \* bridge -> HTTP API transport: "ok", "down"
    resp,        \* the last request served with its outcome
    snap,        \* history: one earlier response kept since the environment last changed
    backlog,     \* HTTP requests that arrived and wait for the server, oldest first
    handling     \* HTTP requests whose handler has started and has not yet answered

vars == <<deployment, pc, configSrc, cluster, upstream, link, resp, snap, backlog, handling>>

(***************************************************************************)
(* Bounds of the model.                                                    *)
(***************************************************************************)
\* Objects in the cluster besides the "default" namespace.
MaxObjects == 2

\* The same bound where one earlier response is kept beside the last one.
MaxObjectsKept == 1

\* Requests that wait for the HTTP server at one time.
MaxBacklog == 2

(***************************************************************************)
(* Python values.                                                          *)
(***************************************************************************)
\* None and a present value of an optional field.
None == <<>>
Some(v) == <<v>>

\* dict.get(key, default)
Get(d, k, default) == IF k \in DOMAIN d THEN d[k] ELSE default

\* "x or 0" on an optional integer.
OrZero(opt) == IF opt = None THEN 0 ELSE opt[1]

\* "x or []" on an optional list.
OrEmpty(opt) == IF opt = None THEN <<>> ELSE opt[1]

\* The empty dict.
EmptyDict == [k \in {} |-> TRUE]

RECURSIVE SumSeq(_)
SumSeq(s) == IF s = <<>> THEN 0 ELSE Head(s) + SumSeq(Tail(s))

(***************************************************************************)
(* The cluster: what the Kubernetes API holds.                             *)
(***************************************************************************)
InstanceTypeLabel == "node.kubernetes.io/instance-type"
ZoneLabel == "topology.kubernetes.io/zone"

Cond(t, s) == [type |-> t, status |-> s]

\* Namespaces that may exist besides "default"; "ghost" never exists.
ExtraNamespaces == {"kube-system", "mcp-server"}

NodePool ==
    { [name |-> "ip-10-0-1-7", labels |-> Some((InstanceTypeLabel :> "t3.medium") @@ (ZoneLabel :> "us-east-1a")),
       conditions |-> Some(<<Cond("Ready", "True")>>)],
      [name |-> "ip-10-0-2-9", labels |-> Some((InstanceTypeLabel :> "m5.large") @@ (ZoneLabel :> "us-east-1b")),
       conditions |-> Some(<<Cond("MemoryPressure", "False"), Cond("Ready", "False")>>)],
      [name |-> "ip-10-0-3-4", labels |-> Some(EmptyDict),
       conditions |-> Some(<<>>)],
      [name |-> "ip-10-0-4-2", labels |-> None,
       conditions |-> Some(<<Cond("Ready", "True")>>)],
      [name |-> "ip-10-0-5-1", labels |-> Some((InstanceTypeLabel :> "c5.xlarge")),
       conditions |-> None] }

PodPool ==
    { [name |-> "web-1", namespace |-> "default", phase |-> "Running",
       conditions |-> Some(<<Cond("Initialized", "True"), Cond("Ready", "True")>>),
       container_statuses |-> Some(<<[restart_count |-> Some(0)], [restart_count |-> Some(2)]>>)],
      [name |-> "job-1", namespace |-> "default", phase |-> "Pending",
       conditions |-> None, container_statuses |-> None],
      [name |-> "mcp-server-1", namespace |-> "mcp-server", phase |-> "Running",
       conditions |-> Some(<<Cond("Ready", "True")>>),
       container_statuses |-> Some(<<[restart_count |-> Some(1)]>>)] }

DeploymentPool ==
    { [name |-> "web", namespace |-> "default", replicas |-> 3,
       ready_replicas |-> Some(2), available_replicas |-> Some(2)],
      [name |-> "batch", namespace |-> "default", replicas |-> 1,
       ready_replicas |-> None, available_replicas |-> None],
      [name |-> "mcp-server", namespace |-> "mcp-server", replicas |-> 2,
       ready_replicas |-> Some(2), available_replicas |-> Some(2)] }

InSeq(x, s) == \E i \in 1..Len(s) : s[i] = x

RemoveAt(s, i) == [j \in 1..(Len(s) - 1) |-> IF j < i THEN s[j] ELSE s[j + 1]]

ObjectCount(c) ==
    (Len(c.namespaces) - 1) + Len(c.nodes) + Len(c.pods) + Len(c.deployments)

EmptyCluster ==
    [namespaces |-> <<"default">>, nodes |-> <<>>, pods |-> <<>>, deployments |-> <<>>]

(***************************************************************************)
(* The Kubernetes client calls.  Their outcome is an input of the servers: *)
(* a listing, an ApiException carrying the HTTP status of the API, or any  *)
(* other exception (transport failure, timeout).                           *)
(***************************************************************************)
Ok(items) == [tag |-> "ok", items |-> items]
ApiException(status, reason) == [tag |-> "ApiException", status |-> status, reason |-> reason]
OtherException(msg) == [tag |-> "Exception", msg |-> msg]

\* What a call to the API gives before the cluster state is looked at:
\* with no configuration loaded the client talks to its default host and
\* the connection fails.
Failure ==
    IF configSrc = "none" THEN Some(OtherException("Max retries exceeded: connection refused"))
    ELSE IF upstream = "api403" THEN Some(ApiException(403, "Forbidden"))
    ELSE IF upstream = "api500" THEN Some(ApiException(500, "Internal Server Error"))
    ELSE IF upstream = "down" THEN Some(OtherException("Read timed out"))
    ELSE None

\* v1.list_namespace(); limit = 0 stands for no limit.
list_namespace(limit) ==
    IF Failure # None THEN Failure[1]
    ELSE IF limit > 0 /\ limit < Len(cluster.namespaces)
         THEN Ok(SubSeq(cluster.namespaces, 1, limit))
         ELSE Ok(cluster.namespaces)

\* v1.list_node()
list_node ==
    IF Failure # None THEN Failure[1] ELSE Ok(cluster.nodes)

InNamespace(objs, ns) == SelectSeq(objs, LAMBDA o : o.namespace = ns)

\* v1.list_namespaced_pod(namespace=ns): the API answers 404 for a
\* namespace that does not exist.
list_namespaced_pod(ns) ==
    IF Failure # None THEN Failure[1]
    ELSE IF ~InSeq(ns, cluster.namespaces) THEN ApiException(404, "Not Found")
    ELSE Ok(InNamespace(cluster.pods, ns))

\* apps_v1.list_namespaced_deployment(namespace=ns)
list_namespaced_deployment(ns) ==
    IF Failure # None THEN Failure[1]
    ELSE IF ~InSeq(ns, cluster.namespaces) THEN ApiException(404, "Not Found")
    ELSE Ok(InNamespace(cluster.deployments, ns))

\* str(e) of an exception.
StatusText(status) ==
    CASE status = 403 -> "(403)"
      [] status = 404 -> "(404)"
      [] status = 500 -> "(500)"
      [] OTHER -> "(?)"

StrE(e) ==
    IF e.tag = "ApiException" THEN StatusText(e.status) \o " Reason: " \o e.reason
    ELSE e.msg

(***************************************************************************)
(* server-simple.py: the HTTP server.                                      *)
(***************************************************************************)
\* One response written to the client.
send_json_response(data, status) ==
    [status |-> status, ctype |-> "application/json", cors |-> TRUE, body |-> data]

\* BaseHTTPRequestHandler.send_error as do_GET uses it: an HTML error page,
\* written without the headers send_json_response adds.
send_error(code, message) ==
    [status |-> code, ctype |-> "text/html;charset=utf-8", cors |-> FALSE,
     body |-> [message |-> message]]

\* What a handler leaves behind: the responses written, the cluster calls
\* made, and whether an exception left the handler.
Handled(sent, calls) == [raised |-> FALSE, exc |-> None, sent |-> sent, calls |-> calls]
Raised(e, sent, calls) == [raised |-> TRUE, exc |-> Some(e), sent |-> sent, calls |-> calls]

\* No response: the server waits for a request.
NoResp == [req |-> [server |-> "none"], out |-> Handled(<<>>, <<>>)]

\* No earlier response kept.
NoSnap == [req |-> [server |-> "none"], out |-> Handled(<<>>, <<>>), between |-> FALSE]

\* A handler whose except clause is missing: the exception leaves it.
HealthFromNoExcept(r) ==
    IF r.tag = "ok"
    THEN Handled(<<send_json_response(
                     [status |-> "healthy", kubernetes_api |-> "accessible",
                      server |-> "mcp-eks-server"], 200)>>,
                 <<"list_namespace(limit=1)">>)
    ELSE Raised(r, <<>>, <<"list_namespace(limit=1)">>)

\* A handler that reports the status of the server, not of the probe.
HealthFromServerOnly(r) ==
    Handled(<<send_json_response(
                [status |-> "healthy",
                 kubernetes_api |-> IF r.tag = "ok" THEN "accessible" ELSE "inaccessible",
                 server |-> "mcp-eks-server"], 200)>>,
            <<"list_namespace(limit=1)">>)

\* handle_health once v1.list_namespace(limit=1) has answered r.
HealthFrom(r) ==
    IF r.tag = "ok"
    THEN Handled(<<send_json_response(
                     [status |-> "healthy", kubernetes_api |-> "accessible",
                      server |-> "mcp-eks-server"], 200)>>,
                 <<"list_namespace(limit=1)">>)
    ELSE Handled(<<send_json_response(
                     [status |-> "unhealthy", kubernetes_api |-> "inaccessible",
                      error |-> StrE(r)], 500)>>,
                 <<"list_namespace(limit=1)">>)

handle_health == HealthFrom(list_namespace(1))

\* os.getenv with the defaults of server-simple.py.
CLUSTER_NAME == "mcp-eks-cluster"
AWS_REGION_SIMPLE == "us-east-1"

\* A handler that reports the names in reverse listing order.
ClusterInfoFromReversed(r) ==
    IF r.tag = "ok"
    THEN Handled(<<send_json_response(
                     [cluster_name |-> CLUSTER_NAME, region |-> AWS_REGION_SIMPLE,
                      namespace_count |-> Len(r.items),
                      namespaces |-> [i \in 1..Len(r.items) |->
                                         r.items[Len(r.items) + 1 - i]]], 200)>>,
                 <<"list_namespace">>)
    ELSE Handled(<<send_json_response([error |-> StrE(r)], 500)>>, <<"list_namespace">>)

\* handle_cluster_info once v1.list_namespace() has answered r.
ClusterInfoFrom(r) ==
    IF r.tag = "ok"
    THEN Handled(<<send_json_response(
                     [cluster_name |-> CLUSTER_NAME, region |-> AWS_REGION_SIMPLE,
                      namespace_count |-> Len(r.items),
                      namespaces |-> [i \in 1..Len(r.items) |-> r.items[i]]], 200)>>,
                 <<"list_namespace">>)
    ELSE Handled(<<send_json_response([error |-> StrE(r)], 500)>>, <<"list_namespace">>)

handle_cluster_info == ClusterInfoFrom(list_namespace(0))

\* any(condition.type == "Ready" and condition.status == "True" for ...)
AnyReady(conditions) ==
    \E i \in 1..Len(conditions) :
        conditions[i].type = "Ready" /\ conditions[i].status = "True"

\* The dict built for one node; iterating conditions that are None and
\* calling .get on labels that are None raise.
NodeInfo(node) ==
    IF node.conditions = None
    THEN OtherException("'NoneType' object is not iterable")
    ELSE IF node.labels = None
    THEN OtherException("'NoneType' object has no attribute 'get'")
    ELSE [tag |-> "ok",
          val |-> [name |-> node.name,
                   status |-> IF AnyReady(node.conditions[1]) THEN "Ready" ELSE "NotReady",
                   instance_type |-> Get(node.labels[1], InstanceTypeLabel, "unknown"),
                   zone |-> Get(node.labels[1], ZoneLabel, "unknown")]]

\* The exception of the first element whose extraction raises, if any.
FirstRaise(results) ==
    IF \E i \in 1..Len(results) : results[i].tag # "ok"
    THEN Some(results[CHOOSE i \in 1..Len(results) :
                        /\ results[i].tag # "ok"
                        /\ \A j \in 1..(i - 1) : results[j].tag = "ok"])
    ELSE None

\* [x.val for x in results]
Vals(results) == [i \in 1..Len(results) |-> results[i].val]

\* A count of the nodes that are ready instead of all nodes.
NodeCountReady(items) ==
    Len(SelectSeq(items, LAMBDA n : n.conditions # None /\ AnyReady(n.conditions[1])))

\* node_count: len(nodes.items)
NodeCount(items) == Len(items)

\* A node_info list that is not emptied: it still holds what an earlier
\* request put into it.
NodesBuiltKept(items, infos) ==
    IF FirstRaise(infos) # None
    THEN Handled(<<send_json_response([error |-> StrE(FirstRaise(infos)[1])], 500)>>,
                 <<"list_node">>)
    ELSE Handled(<<send_json_response(
                     [node_count |-> NodeCount(items),
                      nodes |-> (IF snap.req.server = "simple" /\ snap.req.path = "/nodes"
                                    /\ snap.out.sent[1].status = 200
                                 THEN snap.out.sent[1].body.nodes ELSE <<>>)
                                \o Vals(infos)], 200)>>,
                 <<"list_node">>)

\* The end of handle_nodes: infos are the dicts built in the loop.
NodesBuilt(items, infos) ==
    IF FirstRaise(infos) # None
    THEN Handled(<<send_json_response([error |-> StrE(FirstRaise(infos)[1])], 500)>>,
                 <<"list_node">>)
    ELSE Handled(<<send_json_response(
                     [node_count |-> NodeCount(items), nodes |-> Vals(infos)], 200)>>,
                 <<"list_node">>)

\* handle_nodes once v1.list_node() has answered r.
NodesFrom(r) ==
    IF r.tag # "ok"
    THEN Handled(<<send_json_response([error |-> StrE(r)], 500)>>, <<"list_node">>)
    ELSE NodesBuilt(r.items, [i \in 1..Len(r.items) |-> NodeInfo(r.items[i])])

handle_nodes == NodesFrom(list_node)

\* The dict built for one pod.
PodInfo(pod) ==
    [name |-> pod.name,
     phase |-> pod.phase,
     ready |-> Len(SelectSeq(OrEmpty(pod.conditions),
                             LAMBDA c : c.type = "Ready" /\ c.status = "True")),
     restart_count |-> SumSeq([i \in 1..Len(OrEmpty(pod.container_statuses)) |->
                                 OrZero(OrEmpty(pod.container_statuses)[i].restart_count)])]

\* An except branch that does not look at the status.
ApiErrorBodyGeneric(e, namespace) == [error |-> "API error: " \o e.reason]

\* The error body of the "except ApiException" branch.
ApiErrorBody(e, namespace) ==
    IF e.status = 404
    THEN [error |-> "Namespace '" \o namespace \o "' not found"]
    ELSE [error |-> "API error: " \o e.reason]

\* The listing body of handle_pods.
PodListing(namespace, pod_list) ==
    [namespace |-> namespace, pod_count |-> Len(pod_list), pods |-> pod_list]

\* A handler that takes an empty listing for a missing namespace.
PodsFromEmptyIsMissing(r, namespace) ==
    IF r.tag = "ok" /\ r.items # <<>>
    THEN Handled(<<send_json_response(
                     PodListing(namespace, [i \in 1..Len(r.items) |-> PodInfo(r.items[i])]),
                     200)>>,
                 <<"list_namespaced_pod">>)
    ELSE IF r.tag = "ok" \/ r.tag = "ApiException"
    THEN Handled(<<send_json_response(
                     [error |-> "Namespace '" \o namespace \o "' not found"], 500)>>,
                 <<"list_namespaced_pod">>)
    ELSE Handled(<<send_json_response([error |-> StrE(r)], 500)>>,
                 <<"list_namespaced_pod">>)

\* handle_pods once v1.list_namespaced_pod has answered r.
PodsFrom(r, namespace) ==
    IF r.tag = "ok"
    THEN Handled(<<send_json_response(
                     PodListing(namespace, [i \in 1..Len(r.items) |-> PodInfo(r.items[i])]),
                     200)>>,
                 <<"list_namespaced_pod">>)
    ELSE IF r.tag = "ApiException"
    THEN Handled(<<send_json_response(ApiErrorBody(r, namespace), 500)>>,
                 <<"list_namespaced_pod">>)
    ELSE Handled(<<send_json_response([error |-> StrE(r)], 500)>>,
                 <<"list_namespaced_pod">>)

handle_pods(namespace) == PodsFrom(list_namespaced_pod(namespace), namespace)

\* A dict in which an absent count is taken to be the desired count.
DeploymentInfoAbsentIsDesired(d) ==
    [name |-> d.name,
     replicas |-> d.replicas,
     ready_replicas |-> IF d.ready_replicas = None THEN d.replicas ELSE d.ready_replicas[1],
     available_replicas |-> IF d.available_replicas = None THEN d.replicas
                            ELSE d.available_replicas[1]]

\* The dict built for one deployment.
DeploymentInfo(d) ==
    [name |-> d.name,
     replicas |-> d.replicas,
     ready_replicas |-> OrZero(d.ready_replicas),
     available_replicas |-> OrZero(d.available_replicas)]

\* The listing body of handle_deployments.
DeploymentListing(namespace, deployment_list) ==
    [namespace |-> namespace, deployment_count |-> Len(deployment_list),
     deployments |-> deployment_list]

\* A handler that answers 404 for a missing namespace.
DeploymentsFrom404(r, namespace) ==
    IF r.tag = "ok"
    THEN Handled(<<send_json_response(
                     DeploymentListing(namespace,
                         [i \in 1..Len(r.items) |-> DeploymentInfo(r.items[i])]),
                     200)>>,
                 <<"list_namespaced_deployment">>)
    ELSE IF r.tag = "ApiException"
    THEN Handled(<<send_json_response(ApiErrorBody(r, namespace),
                                      IF r.status = 404 THEN 404 ELSE 500)>>,
                 <<"list_namespaced_deployment">>)
    ELSE Handled(<<send_json_response([error |-> StrE(r)], 500)>>,
                 <<"list_namespaced_deployment">>)

\* A handler whose listing is sent before the loop that may still fail: an
\* ApiException is answered a second time by the except clause.
DeploymentsFromAnswersTwice(r, namespace) ==
    IF r.tag = "ok"
    THEN Handled(<<send_json_response(
                     DeploymentListing(namespace,
                         [i \in 1..Len(r.items) |-> DeploymentInfo(r.items[i])]),
                     200)>>,
                 <<"list_namespaced_deployment">>)
    ELSE IF r.tag = "ApiException"
    THEN Handled(<<send_json_response(DeploymentListing(namespace, <<>>), 200),
                   send_json_response(ApiErrorBody(r, namespace), 500)>>,
                 <<"list_namespaced_deployment">>)
    ELSE Handled(<<send_json_response([error |-> StrE(r)], 500)>>,
                 <<"list_namespaced_deployment">>)

\* handle_deployments once apps_v1.list_namespaced_deployment has answered r.
DeploymentsFrom(r, namespace) ==
    IF r.tag = "ok"
    THEN Handled(<<send_json_response(
                     DeploymentListing(namespace,
                         [i \in 1..Len(r.items) |-> DeploymentInfo(r.items[i])]),
                     200)>>,
                 <<"list_namespaced_deployment">>)
    ELSE IF r.tag = "ApiException"
    THEN Handled(<<send_json_response(ApiErrorBody(r, namespace), 500)>>,
                 <<"list_namespaced_deployment">>)
    ELSE Handled(<<send_json_response([error |-> StrE(r)], 500)>>,
                 <<"list_namespaced_deployment">>)

handle_deployments(namespace) ==
    DeploymentsFrom(list_namespaced_deployment(namespace), namespace)

\* parse_qs(parsed_path.query) for a query that carries at most the
\* namespace parameter: a blank value is dropped.
parse_qs(query) ==
    IF query = None \/ query[1] = "" THEN EmptyDict
    ELSE ("namespace" :> <<query[1]>>)

\* query_params.get('namespace', ['default'])[0]
NamespaceParam(query) == Get(parse_qs(query), "namespace", <<"default">>)[1]

\* A chain that matches "/pods/" like "/pods".
RouteTrailingSlash(path, query) ==
    CASE path = "/health" -> Some(handle_health)
      [] path = "/cluster-info" -> Some(handle_cluster_info)
      [] path = "/nodes" -> Some(handle_nodes)
      [] path \in {"/pods", "/pods/"} -> Some(handle_pods(NamespaceParam(query)))
      [] path = "/deployments" -> Some(handle_deployments(NamespaceParam(query)))
      [] OTHER -> None

\* The if/elif chain of do_GET: what the chosen handler leaves behind, None
\* for the else branch.
Route(path, query) ==
    CASE path = "/health" -> Some(handle_health)
      [] path = "/cluster-info" -> Some(handle_cluster_info)
      [] path = "/nodes" -> Some(handle_nodes)
      [] path = "/pods" -> Some(handle_pods(NamespaceParam(query)))
      [] path = "/deployments" -> Some(handle_deployments(NamespaceParam(query)))
      [] OTHER -> None

\* The else branch and the except clause of do_GET.
Dispatched(h) ==
    IF h = None
    THEN Handled(<<send_error(404, "Not Found")>>, <<>>)
    ELSE IF h[1].raised
    THEN Handled(h[1].sent \o <<send_error(500, StrE(h[1].exc[1]))>>, h[1].calls)
    ELSE h[1]

do_GET(path, query) == Dispatched(Route(path, query))

\* Paths and queries of the requests sent to the HTTP server.
Paths == {"/health", "/cluster-info", "/nodes", "/pods", "/deployments", "/", "/pods/"}
NamespaceArgs == {"default", "mcp-server", "ghost"}
Queries(path) ==
    IF path \in {"/pods", "/deployments"}
    THEN {None, Some("")} \cup {Some(n) : n \in NamespaceArgs}
    ELSE {None, Some("ghost")}

(***************************************************************************)
(* server-enhanced.py: the MCP server that calls the cluster API itself.   *)
(* A handler returns a JSON text; the model keeps the object it encodes.   *)
(***************************************************************************)
Returned(result, calls) ==
    [raised |-> FALSE, exc |-> None, result |-> Some(result), calls |-> calls]
Escaped(e, calls) ==
    [raised |-> TRUE, exc |-> Some(e), result |-> None, calls |-> calls]

\* os.getenv("AWS_REGION", ...) default of server-enhanced.py.
AWS_REGION_ENHANCED == "us-west-2"

\* The "resource://cluster-info" branch once v1.list_namespace() has
\* answered r; an exception leaves the branch.
ReadClusterInfoFrom(r) ==
    IF r.tag = "ok"
    THEN Returned([cluster_name |-> CLUSTER_NAME, region |-> AWS_REGION_ENHANCED,
                   namespace_count |-> Len(r.items), server_version |-> "1.28",
                   namespaces |-> [i \in 1..Len(r.items) |-> r.items[i]]],
                  <<"list_namespace">>)
    ELSE Escaped(r, <<"list_namespace">>)

\* The end of the "resource://node-info" branch.
ReadNodesBuilt(items, infos) ==
    IF FirstRaise(infos) # None THEN Escaped(FirstRaise(infos)[1], <<"list_node">>)
    ELSE Returned([node_count |-> Len(items), nodes |-> Vals(infos)], <<"list_node">>)

\* The "resource://node-info" branch once v1.list_node() has answered r.
ReadNodeInfoFrom(r) ==
    IF r.tag # "ok" THEN Escaped(r, <<"list_node">>)
    ELSE ReadNodesBuilt(r.items, [i \in 1..Len(r.items) |-> NodeInfo(r.items[i])])

\* The "resource://health" branch, with its own try/except.
ReadHealthFrom(r) ==
    IF r.tag = "ok"
    THEN Returned([status |-> "healthy", kubernetes_api |-> "accessible",
                   timestamp |-> "2024-01-01T00:00:00Z"], <<"list_namespace(limit=1)">>)
    ELSE Returned([status |-> "unhealthy", kubernetes_api |-> "inaccessible",
                   error |-> StrE(r), timestamp |-> "2024-01-01T00:00:00Z"],
                  <<"list_namespace(limit=1)">>)

\* The if/elif chain of handle_read_resource.
ReadResourceBranch(uri) ==
    CASE uri = "resource://cluster-info" -> ReadClusterInfoFrom(list_namespace(0))
      [] uri = "resource://node-info" -> ReadNodeInfoFrom(list_node)
      [] uri = "resource://health" -> ReadHealthFrom(list_namespace(1))
      [] OTHER -> Escaped(OtherException("Unknown resource: " \o uri), <<>>)

\* A handler without the outer try/except.
CatchNothing(h) == h

\* The outer try/except: whatever was raised becomes an error object.
CatchAll(h) ==
    IF h.raised THEN Returned([error |-> StrE(h.exc[1])], h.calls) ELSE h

enhanced_read_resource(uri) == CatchAll(ReadResourceBranch(uri))

\* {"name": ..., "ready": any(...)} of get_cluster_status.
NodeReady(node) ==
    IF node.conditions = None
    THEN OtherException("'NoneType' object is not iterable")
    ELSE [tag |-> "ok", val |-> [name |-> node.name, ready |-> AnyReady(node.conditions[1])]]

\* result of get_cluster_status before the nodes are added.
StatusResult(namespaces) ==
    [cluster_name |-> CLUSTER_NAME, namespace_count |-> Len(namespaces.items),
     kubernetes_version |-> "1.28"]

\* The "if include_nodes" block once v1.list_node() has answered nodes.
StatusWithNodes(result, nodes, infos) ==
    IF nodes.tag # "ok" THEN Escaped(nodes, <<"list_namespace", "list_node">>)
    ELSE IF FirstRaise(infos) # None
    THEN Escaped(FirstRaise(infos)[1], <<"list_namespace", "list_node">>)
    ELSE Returned(result @@ [node_count |-> Len(nodes.items), nodes |-> Vals(infos)],
                  <<"list_namespace", "list_node">>)

\* The get_cluster_status branch; nodes is read only with include_nodes.
ClusterStatusFrom(arguments, namespaces, nodes) ==
    IF namespaces.tag # "ok" THEN Escaped(namespaces, <<"list_namespace">>)
    ELSE IF ~Get(arguments, "include_nodes", FALSE)
    THEN Returned(StatusResult(namespaces), <<"list_namespace">>)
    ELSE StatusWithNodes(StatusResult(namespaces), nodes,
             [i \in 1..Len(OrEmpty(IF nodes.tag = "ok" THEN Some(nodes.items) ELSE None)) |->
                 NodeReady(nodes.items[i])])

\* The list_pods branch once v1.list_namespaced_pod has answered r.
ListPodsFrom(r, namespace, show_status) ==
    IF r.tag = "ok"
    THEN Returned(PodListing(namespace,
                      [i \in 1..Len(r.items) |->
                          IF show_status THEN PodInfo(r.items[i])
                          ELSE [name |-> r.items[i].name]]),
                  <<"list_namespaced_pod">>)
    ELSE IF r.tag = "ApiException"
    THEN Returned(ApiErrorBody(r, namespace), <<"list_namespaced_pod">>)
    ELSE Escaped(r, <<"list_namespaced_pod">>)

\* The get_deployments branch once the deployments call has answered r.
GetDeploymentsFrom(r, namespace) ==
    IF r.tag = "ok"
    THEN Returned(DeploymentListing(namespace,
                      [i \in 1..Len(r.items) |-> DeploymentInfo(r.items[i])]),
                  <<"list_namespaced_deployment">>)
    ELSE IF r.tag = "ApiException"
    THEN Returned(ApiErrorBody(r, namespace), <<"list_namespaced_deployment">>)
    ELSE Escaped(r, <<"list_namespaced_deployment">>)

\* arguments.get("namespace", "default")
NamespaceArg(arguments, default) == Get(arguments, "namespace", default)

\* The if/elif chain of handle_call_tool.
CallToolBranch(name, arguments) ==
    CASE name = "get_cluster_status" ->
            ClusterStatusFrom(arguments, list_namespace(0), list_node)
      [] name = "list_pods" ->
            ListPodsFrom(list_namespaced_pod(NamespaceArg(arguments, "default")),
                         NamespaceArg(arguments, "default"),
                         Get(arguments, "show_status", TRUE))
      [] name = "get_deployments" ->
            GetDeploymentsFrom(list_namespaced_deployment(NamespaceArg(arguments, "default")),
                               NamespaceArg(arguments, "default"))
      [] OTHER -> Escaped(OtherException("Unknown tool: " \o name), <<>>)

enhanced_call_tool(name, arguments) == CatchAll(CallToolBranch(name, arguments))

\* Requests sent to the enhanced server.
EnhancedUris ==
    {"resource://cluster-info", "resource://node-info", "resource://health",
     "resource://pod-status"}

NamespaceDicts == {EmptyDict} \cup {("namespace" :> n) : n \in NamespaceArgs}

EnhancedToolCalls ==
    {[name |-> "get_cluster_status", arguments |-> a] :
        a \in {EmptyDict, ("include_nodes" :> TRUE), ("include_nodes" :> FALSE)}}
    \cup {[name |-> "list_pods", arguments |-> a] : a \in NamespaceDicts}
    \cup {[name |-> "list_pods", arguments |-> a @@ ("show_status" :> FALSE)] :
            a \in NamespaceDicts}
    \cup {[name |-> "get_deployments", arguments |-> a] : a \in NamespaceDicts}
    \cup {[name |-> "check_pods", arguments |-> EmptyDict]}

(***************************************************************************)
(* server-claude-bridge.py: the MCP server in front of the HTTP server.    *)
(* A text returned to the caller is kept as its parts: the leading         *)
(* indicator ("CROSS" for the failure mark, "CHECK" for the success mark)  *)
(* and the values templated into it.                                       *)
(***************************************************************************)
MCP_API_BASE == "http://mcp-api"

\* f"{MCP_API_BASE}{endpoint}" for an endpoint given as path and query.
Url(endpoint) ==
    MCP_API_BASE \o endpoint.path \o
    (IF endpoint.query = None THEN "" ELSE "?namespace=" \o endpoint.query[1])

\* str(e) of the HTTPError raised by response.raise_for_status().
HttpErrorText(response, endpoint) ==
    (CASE response.status = 404 -> "404 Client Error: Not Found"
       [] response.status = 500 -> "500 Server Error: Internal Server Error"
       [] OTHER -> "Error") \o " for url: " \o Url(endpoint)

\* A client that asks a second time when the first answer is an error.
ApiAnswerRetried(served, endpoint) ==
    IF served.sent[1].status >= 400
    THEN [data |-> [error |-> HttpErrorText(served.sent[1], endpoint)],
          calls |-> served.calls \o served.calls]
    ELSE [data |-> served.sent[1].body, calls |-> served.calls]

\* raise_for_status() and response.json() on what the HTTP server answered.
ApiAnswer(served, endpoint) ==
    IF served.sent[1].status >= 400
    THEN [data |-> [error |-> HttpErrorText(served.sent[1], endpoint)],
          calls |-> served.calls]
    ELSE [data |-> served.sent[1].body, calls |-> served.calls]

\* call_mcp_api: the parsed JSON body of a 2xx answer, {"error": str(e)}
\* for everything else.  calls are the cluster calls the HTTP server made.
call_mcp_api(endpoint) ==
    IF link # "ok"
    THEN [data |-> [error |-> "Connection to " \o Url(endpoint) \o " timed out"],
          calls |-> <<>>]
    ELSE ApiAnswer(do_GET(endpoint.path, endpoint.query), endpoint)

Endpoint(path) == [path |-> path, query |-> None]
NsEndpoint(path, namespace) == [path |-> path, query |-> Some(namespace)]

\* The "resource://cluster-status" branch after its three calls.
ClusterStatusOf(cluster_info, nodes, health) ==
    Returned([cluster |-> cluster_info.data, nodes |-> nodes.data, health |-> health.data],
             cluster_info.calls \o nodes.calls \o health.calls)

\* The "resource://pod-status" branch after its three calls.
PodStatusOf(mcp_pods, default_pods, karpenter_pods) ==
    Returned([mcp_server |-> mcp_pods.data, default |-> default_pods.data,
              karpenter |-> karpenter_pods.data],
             mcp_pods.calls \o default_pods.calls \o karpenter_pods.calls)

bridge_read_resource(uri) ==
    CASE uri = "resource://cluster-status" ->
            ClusterStatusOf(call_mcp_api(Endpoint("/cluster-info")),
                            call_mcp_api(Endpoint("/nodes")),
                            call_mcp_api(Endpoint("/health")))
      [] uri = "resource://pod-status" ->
            PodStatusOf(call_mcp_api(NsEndpoint("/pods", "mcp-server")),
                        call_mcp_api(NsEndpoint("/pods", "default")),
                        call_mcp_api(NsEndpoint("/pods", "karpenter")))
      [] OTHER -> Escaped(OtherException("Unknown resource: " \o uri), <<>>)

\* The failure text: the failure mark, what failed, and the detail.
FailText(what, detail) == [lead |-> "CROSS", what |-> what, detail |-> detail]

\* The instance type the bridge takes for the nodes not managed by Karpenter.
BaselineType == "t3.medium"

\* A filter with the comparison turned round.
KarpenterOnlyInverted(node_list) ==
    SelectSeq(node_list, LAMBDA n : Get(n, "instance_type", "None") = BaselineType)

\* [n for n in node_list if n.get('instance_type') != 't3.medium']
KarpenterOnly(node_list) ==
    SelectSeq(node_list, LAMBDA n : Get(n, "instance_type", "None") # BaselineType)

\* [n for n in nodes.get('nodes', []) if n.get('status') == 'Ready']
ReadyOnly(node_list) ==
    SelectSeq(node_list, LAMBDA n : Get(n, "status", "None") = "Ready")

\* The check_cluster_health branch after its three calls.
HealthText(health, cluster_info, nodes) ==
    IF Get(health.data, "status", "None") = "healthy"
    THEN Returned(
           [lead |-> "CHECK",
            title |-> Get(cluster_info.data, "cluster_name", "unknown"),
            cluster_name |-> Get(cluster_info.data, "cluster_name", "None"),
            region |-> Get(cluster_info.data, "region", "None"),
            namespaces |-> Get(cluster_info.data, "namespace_count", 0),
            nodes |-> Get(nodes.data, "node_count", 0),
            ready_nodes |-> Len(ReadyOnly(Get(nodes.data, "nodes", <<>>))),
            karpenter_nodes |-> Len(KarpenterOnly(Get(nodes.data, "nodes", <<>>))),
            kubernetes_api |-> Get(health.data, "kubernetes_api", "unknown")],
           health.calls \o cluster_info.calls \o nodes.calls)
    ELSE Returned(FailText("Cluster health check failed: ",
                           Get(health.data, "error", "Unknown error")),
                  health.calls \o cluster_info.calls \o nodes.calls)

\* The lines written for one node.
NodeLines(node) ==
    [emoji |-> IF Get(node, "status", "None") = "Ready" THEN "CHECK" ELSE "CROSS",
     name |-> Get(node, "name", "unknown"),
     type |-> Get(node, "instance_type", "unknown"),
     zone |-> Get(node, "zone", "unknown"),
     status |-> Get(node, "status", "unknown")]

\* The text of get_node_info for the nodes kept.
NodeText(node_list, include_karpenter_only) ==
    [lead |-> "NODES", count |-> Len(node_list), karpenter |-> include_karpenter_only,
     entries |-> [i \in 1..Len(node_list) |-> NodeLines(node_list[i])]]

\* The get_node_info branch once call_mcp_api("/nodes") has answered nodes.
NodeInfoText(nodes, include_karpenter_only) ==
    IF "error" \in DOMAIN nodes.data
    THEN Returned(FailText("Error getting node info: ", nodes.data.error), nodes.calls)
    ELSE Returned(NodeText(IF include_karpenter_only
                           THEN KarpenterOnly(Get(nodes.data, "nodes", <<>>))
                           ELSE Get(nodes.data, "nodes", <<>>),
                           include_karpenter_only),
                  nodes.calls)

\* The lines written for one pod.
PodLines(pod) ==
    [emoji |-> IF Get(pod, "phase", "None") = "Running" /\ pod.ready > 0
               THEN "CHECK" ELSE "CROSS",
     name |-> Get(pod, "name", "unknown"),
     phase |-> Get(pod, "phase", "unknown"),
     ready |-> Get(pod, "ready", 0),
     restarts |-> Get(pod, "restart_count", 0)]

\* The text of check_pods for a listing.
PodText(namespace, pod_count, pod_list) ==
    [lead |-> "PODS", namespace |-> namespace, count |-> pod_count,
     empty_note |-> (pod_count = 0),
     entries |-> IF pod_count = 0 THEN <<>>
                 ELSE [i \in 1..Len(pod_list) |-> PodLines(pod_list[i])]]

\* The check_pods branch once call_mcp_api has answered pods.
CheckPodsText(pods, namespace) ==
    IF "error" \in DOMAIN pods.data
    THEN Returned(FailText("Error checking pods in " \o namespace \o ": ", pods.data.error),
                  pods.calls)
    ELSE Returned(PodText(namespace, Get(pods.data, "pod_count", 0),
                          Get(pods.data, "pods", <<>>)),
                  pods.calls)

\* The lines written for one deployment.
DeploymentLines(d) ==
    [emoji |-> IF Get(d, "ready_replicas", 0) = Get(d, "replicas", 0)
                  /\ Get(d, "available_replicas", 0) = Get(d, "replicas", 0)
               THEN "CHECK" ELSE "WARNING",
     name |-> Get(d, "name", "unknown"),
     desired |-> Get(d, "replicas", 0),
     ready |-> Get(d, "ready_replicas", 0),
     available |-> Get(d, "available_replicas", 0)]

\* The text of get_deployments for a listing.
DeploymentText(namespace, deployment_count, deployment_list) ==
    [lead |-> "ROCKET", namespace |-> namespace, count |-> deployment_count,
     empty_note |-> (deployment_count = 0),
     entries |-> IF deployment_count = 0 THEN <<>>
                 ELSE [i \in 1..Len(deployment_list) |->
                         DeploymentLines(deployment_list[i])]]

\* The get_deployments branch once call_mcp_api has answered deployments.
BridgeDeploymentsText(deployments, namespace) ==
    IF "error" \in DOMAIN deployments.data
    THEN Returned(FailText("Error getting deployments in " \o namespace \o ": ",
                           deployments.data.error), deployments.calls)
    ELSE Returned(DeploymentText(namespace, Get(deployments.data, "deployment_count", 0),
                                 Get(deployments.data, "deployments", <<>>)),
                  deployments.calls)

\* The if/elif chain of handle_call_tool.
bridge_call_tool(name, arguments) ==
    CASE name = "check_cluster_health" ->
            HealthText(call_mcp_api(Endpoint("/health")),
                       call_mcp_api(Endpoint("/cluster-info")),
                       call_mcp_api(Endpoint("/nodes")))
      [] name = "get_node_info" ->
            NodeInfoText(call_mcp_api(Endpoint("/nodes")),
                         Get(arguments, "include_karpenter_only", FALSE))
      [] name = "check_pods" ->
            CheckPodsText(call_mcp_api(NsEndpoint("/pods",
                                           NamespaceArg(arguments, "mcp-server"))),
                          NamespaceArg(arguments, "mcp-server"))
      [] name = "get_deployments" ->
            BridgeDeploymentsText(call_mcp_api(NsEndpoint("/deployments",
                                                   NamespaceArg(arguments, "default"))),
                                  NamespaceArg(arguments, "default"))
      [] OTHER -> Returned(FailText("Unknown tool: ", name), <<>>)

\* Requests sent to the bridge.
BridgeUris == {"resource://cluster-status", "resource://pod-status", "resource://health"}

BridgeNamespaceDicts == NamespaceDicts \cup {("namespace" :> "")}

BridgeToolCalls ==
    {[name |-> "check_cluster_health", arguments |-> EmptyDict]}
    \cup {[name |-> "get_node_info", arguments |-> a] :
            a \in {EmptyDict, ("include_karpenter_only" :> TRUE),
                   ("include_karpenter_only" :> FALSE)}}
    \cup {[name |-> "check_pods", arguments |-> a] : a \in BridgeNamespaceDicts}
    \cup {[name |-> "get_deployments", arguments |-> a] : a \in BridgeNamespaceDicts}
    \cup {[name |-> "list_pods", arguments |-> EmptyDict]}

(***************************************************************************)
(* The state machine.                                                      *)
(***************************************************************************)
Init ==
    /\ deployment \in {"http", "enhanced"}
    /\ pc = "start"
    /\ configSrc = "unset"
    /\ cluster = EmptyCluster
    /\ upstream = "up"
    /\ link = "ok"
    /\ resp = NoResp
    /\ snap = NoSnap
    /\ backlog = <<>>
    /\ handling = {}

\* config.load_incluster_config(), which succeeds only inside a pod.
LoadInCluster ==
    /\ pc = "start"
    /\ \E ok \in BOOLEAN :
          IF ok THEN configSrc' = "incluster" /\ pc' = "serving"
                ELSE configSrc' = configSrc /\ pc' = "fallback"
    /\ UNCHANGED <<deployment, cluster, upstream, link, resp, snap, backlog, handling>>

\* config.load_kube_config(), tried after the in-cluster configuration failed;
\* v1 and apps_v1 are created whatever the outcome.
LoadKubeConfig ==
    /\ pc = "fallback"
    /\ \E ok \in BOOLEAN : configSrc' = IF ok THEN "kubeconfig" ELSE "none"
    /\ pc' = "serving"
    /\ UNCHANGED <<deployment, cluster, upstream, link, resp, snap, backlog, handling>>

\* A server that takes requests while the credentials are still being resolved.
IdleBeforeInit == resp = NoResp

\* The server waits for a request: the last response has been read.
Idle == pc = "serving" /\ resp = NoResp

\* server.serve_forever() of server-simple.py: one GET handled from start to end.
HttpGet ==
    /\ Idle
    /\ deployment = "http"
    /\ \E path \in Paths : \E query \in Queries(path) :
          resp' = [req |-> [server |-> "simple", path |-> path, query |-> query],
                   out |-> do_GET(path, query)]
    /\ UNCHANGED <<deployment, pc, configSrc, cluster, upstream, link, snap, backlog, handling>>

\* server-enhanced.py: one resources/read request.
EnhancedReadResource ==
    /\ Idle
    /\ deployment = "enhanced"
    /\ \E uri \in EnhancedUris :
          resp' = [req |-> [server |-> "enhanced", kind |-> "resource", uri |-> uri],
                   out |-> enhanced_read_resource(uri)]
    /\ UNCHANGED <<deployment, pc, configSrc, cluster, upstream, link, snap, backlog, handling>>

\* A tool call that deletes the pods it has listed.
EnhancedCallToolDeletes ==
    /\ Idle
    /\ deployment = "enhanced"
    /\ \E c \in EnhancedToolCalls :
          /\ resp' = [req |-> [server |-> "enhanced", kind |-> "tool", name |-> c.name,
                               arguments |-> c.arguments],
                      out |-> enhanced_call_tool(c.name, c.arguments)]
          /\ cluster' = IF c.name = "list_pods"
                        THEN [cluster EXCEPT !.pods = SelectSeq(@, LAMBDA p :
                                 p.namespace # NamespaceArg(c.arguments, "default"))]
                        ELSE cluster
    /\ UNCHANGED <<deployment, pc, configSrc, upstream, link, snap, backlog, handling>>

\* server-enhanced.py: one tools/call request.
EnhancedCallTool ==
    /\ Idle
    /\ deployment = "enhanced"
    /\ \E c \in EnhancedToolCalls :
          resp' = [req |-> [server |-> "enhanced", kind |-> "tool", name |-> c.name,
                            arguments |-> c.arguments],
                   out |-> enhanced_call_tool(c.name, c.arguments)]
    /\ UNCHANGED <<deployment, pc, configSrc, cluster, upstream, link, snap, backlog, handling>>

\* server-claude-bridge.py: one resources/read request.
BridgeReadResource ==
    /\ Idle
    /\ deployment = "http"
    /\ \E uri \in BridgeUris :
          resp' = [req |-> [server |-> "bridge", kind |-> "resource", uri |-> uri],
                   out |-> bridge_read_resource(uri)]
    /\ UNCHANGED <<deployment, pc, configSrc, cluster, upstream, link, snap, backlog, handling>>

\* server-claude-bridge.py: one tools/call request.
BridgeCallTool ==
    /\ Idle
    /\ deployment = "http"
    /\ \E c \in BridgeToolCalls :
          resp' = [req |-> [server |-> "bridge", kind |-> "tool", name |-> c.name,
                            arguments |-> c.arguments],
                   out |-> bridge_call_tool(c.name, c.arguments)]
    /\ UNCHANGED <<deployment, pc, configSrc, cluster, upstream, link, snap, backlog, handling>>

\* The caller has read the response; the server waits for the next request.
ResponseRead ==
    /\ pc = "serving"
    /\ resp # NoResp
    /\ resp' = NoResp
    /\ snap' = IF snap # NoSnap /\ resp.req # snap.req
               THEN [snap EXCEPT !.between = TRUE] ELSE snap
    /\ UNCHANGED <<deployment, pc, configSrc, cluster, upstream, link, backlog, handling>>

\* The cluster changes between two requests: an object appears.
ClusterAdd(bound) ==
    /\ Idle
    /\ ObjectCount(cluster) < bound
    /\ \/ \E n \in ExtraNamespaces :
             /\ ~InSeq(n, cluster.namespaces)
             /\ cluster' = [cluster EXCEPT !.namespaces = Append(@, n)]
       \/ \E n \in NodePool :
             /\ ~InSeq(n, cluster.nodes)
             /\ cluster' = [cluster EXCEPT !.nodes = Append(@, n)]
       \/ \E p \in PodPool :
             /\ ~InSeq(p, cluster.pods)
             /\ InSeq(p.namespace, cluster.namespaces)
             /\ cluster' = [cluster EXCEPT !.pods = Append(@, p)]
       \/ \E d \in DeploymentPool :
             /\ ~InSeq(d, cluster.deployments)
             /\ InSeq(d.namespace, cluster.namespaces)
             /\ cluster' = [cluster EXCEPT !.deployments = Append(@, d)]
    /\ snap' = NoSnap
    /\ UNCHANGED <<deployment, pc, configSrc, upstream, link, resp, backlog, handling>>

\* The cluster changes: an object goes away; a namespace takes its pods and
\* deployments with it.
ClusterRemove ==
    /\ Idle
    /\ \/ \E i \in 2..Len(cluster.namespaces) :
             cluster' = [cluster EXCEPT
                 !.namespaces = RemoveAt(@, i),
                 !.pods = SelectSeq(@, LAMBDA p : p.namespace # cluster.namespaces[i]),
                 !.deployments = SelectSeq(@, LAMBDA d : d.namespace # cluster.namespaces[i])]
       \/ \E i \in 1..Len(cluster.nodes) :
             cluster' = [cluster EXCEPT !.nodes = RemoveAt(@, i)]
       \/ \E i \in 1..Len(cluster.pods) :
             cluster' = [cluster EXCEPT !.pods = RemoveAt(@, i)]
       \/ \E i \in 1..Len(cluster.deployments) :
             cluster' = [cluster EXCEPT !.deployments = RemoveAt(@, i)]
    /\ snap' = NoSnap
    /\ UNCHANGED <<deployment, pc, configSrc, upstream, link, resp, backlog, handling>>

\* The availability of the cluster API changes (one failure at a time: the
\* API is up while the bridge's transport is down).
UpstreamChange ==
    /\ Idle
    /\ link = "ok"
    /\ \E u \in {"up", "api403", "api500", "down"} : u # upstream /\ upstream' = u
    /\ snap' = NoSnap
    /\ UNCHANGED <<deployment, pc, configSrc, cluster, link, resp, backlog, handling>>

\* The transport between the bridge and the HTTP server fails or recovers.
LinkChange ==
    /\ Idle
    /\ deployment = "http"
    /\ upstream = "up"
    /\ link' = IF link = "ok" THEN "down" ELSE "ok"
    /\ snap' = NoSnap
    /\ UNCHANGED <<deployment, pc, configSrc, cluster, upstream, resp, backlog, handling>>

\* The history: the response just read is the one kept for comparison.
ResponseKept ==
    /\ pc = "serving"
    /\ resp # NoResp
    /\ snap' = [req |-> resp.req, out |-> resp.out, between |-> FALSE]
    /\ resp' = NoResp
    /\ UNCHANGED <<deployment, pc, configSrc, cluster, upstream, link, backlog, handling>>

ClusterGrows == ClusterAdd(MaxObjects)

Next ==
    \/ LoadInCluster
    \/ LoadKubeConfig
    \/ HttpGet
    \/ EnhancedReadResource
    \/ EnhancedCallTool
    \/ BridgeReadResource
    \/ BridgeCallTool
    \/ ResponseRead
    \/ ClusterGrows
    \/ ClusterRemove
    \/ UpstreamChange
    \/ LinkChange

Spec == Init /\ [][Next]_vars

\* The same servers with one earlier response kept for comparison, over the
\* clusters of at most MaxObjectsKept objects.
ClusterGrowsKept == ClusterAdd(MaxObjectsKept)

NextKept ==
    \/ LoadInCluster
    \/ LoadKubeConfig
    \/ HttpGet
    \/ EnhancedReadResource
    \/ EnhancedCallTool
    \/ BridgeReadResource
    \/ BridgeCallTool
    \/ ResponseRead
    \/ ResponseKept
    \/ ClusterGrowsKept
    \/ ClusterRemove
    \/ UpstreamChange
    \/ LinkChange

SpecKept == Init /\ [][NextKept]_vars

(***************************************************************************)
(* The HTTP server seen one step finer: requests arrive while another is   *)
(* being handled.  HTTPServer is the single-threaded socket server: its    *)
(* serve_forever loop takes one connection, runs do_GET to its end and     *)
(* only then takes the next.                                               *)
(***************************************************************************)
\* The requests that arrive.
ArrivingRequests ==
    {[path |-> "/health", query |-> None],
     [path |-> "/nodes", query |-> None],
     [path |-> "/pods", query |-> Some("ghost")]}

\* A client connects and sends a GET; the connection waits in the listen
\* queue of the socket main() has bound.
RequestArrives ==
    /\ pc = "serving"
    /\ deployment = "http"
    /\ Len(backlog) < MaxBacklog
    /\ \E r \in ArrivingRequests : backlog' = Append(backlog, r)
    /\ UNCHANGED <<deployment, pc, configSrc, cluster, upstream, link, resp, snap, handling>>

\* A server that hands every connection to a thread of its own
\* (ThreadingHTTPServer) instead of handling it in the serve_forever loop.
HandlerStartsThreaded ==
    /\ pc = "serving"
    /\ backlog # <<>>
    /\ handling' = handling \cup
                      {[req |-> Head(backlog),
                        out |-> do_GET(Head(backlog).path, Head(backlog).query)]}
    /\ backlog' = Tail(backlog)
    /\ UNCHANGED <<deployment, pc, configSrc, cluster, upstream, link, resp, snap>>

\* serve_forever takes the oldest waiting connection and runs do_GET on it,
\* which makes its cluster call; the loop takes no other connection until
\* do_GET has returned.
HandlerStarts ==
    /\ pc = "serving"
    /\ handling = {}
    /\ backlog # <<>>
    /\ handling' = {[req |-> Head(backlog),
                     out |-> do_GET(Head(backlog).path, Head(backlog).query)]}
    /\ backlog' = Tail(backlog)
    /\ UNCHANGED <<deployment, pc, configSrc, cluster, upstream, link, resp, snap>>

\* do_GET returns: the response has been written to the connection.
HandlerEnds ==
    /\ \E h \in handling :
          /\ resp' = [req |-> [server |-> "simple", path |-> h.req.path,
                               query |-> h.req.query],
                      out |-> h.out]
          /\ handling' = handling \ {h}
    /\ UNCHANGED <<deployment, pc, configSrc, cluster, upstream, link, snap, backlog>>

NextSerial ==
    \/ LoadInCluster
    \/ LoadKubeConfig
    \/ RequestArrives
    \/ HandlerStarts
    \/ HandlerEnds
    \/ ResponseRead
    \/ UpstreamChange

SpecSerial == Init /\ [][NextSerial]_vars

(***************************************************************************)
(* The catalogs of the MCP servers and server.py, the server that answers  *)
(* with fixed data and calls no cluster.                                   *)
(***************************************************************************)
\* handle_list_resources and handle_list_tools of server-enhanced.py: the
\* URIs and the tool names advertised.
enhanced_list_resources ==
    {"resource://cluster-info", "resource://node-info", "resource://health"}
enhanced_list_tools == {"get_cluster_status", "list_pods", "get_deployments"}

\* handle_list_resources and handle_list_tools of server-claude-bridge.py.
bridge_list_resources == {"resource://cluster-status", "resource://pod-status"}
bridge_list_tools == {"check_cluster_health", "get_node_info", "check_pods", "get_deployments"}

\* handle_list_resources of server.py.
mock_list_resources == {"resource://cluster-info", "resource://health"}

\* A catalog copied from server-enhanced.py.
mock_list_tools_copied == {"get_cluster_status", "list_pods", "get_deployments"}

\* handle_list_tools of server.py.
mock_list_tools == {"get_cluster_status", "list_pods"}

\* handle_read_resource of server.py.
mock_read_resource(uri) ==
    CASE uri = "resource://cluster-info" ->
            Returned([cluster_name |-> "mcp-eks-cluster", region |-> "us-west-2",
                      status |-> "active", version |-> "1.28"], <<>>)
      [] uri = "resource://health" ->
            Returned([status |-> "healthy", timestamp |-> "2024-01-01T00:00:00Z"], <<>>)
      [] OTHER -> Escaped(OtherException("Unknown resource: " \o uri), <<>>)

\* handle_call_tool of server.py.
mock_call_tool(name, arguments) ==
    CASE name = "get_cluster_status" ->
            Returned([cluster_name |-> Get(arguments, "cluster_name", "mcp-eks-cluster"),
                      status |-> "active", node_count |-> 3, version |-> "1.28"], <<>>)
      [] name = "list_pods" ->
            Returned([namespace |-> Get(arguments, "namespace", "default"),
                      pods |-> <<[name |-> "mcp-server-pod-1", status |-> "Running"],
                                 [name |-> "mcp-server-pod-2", status |-> "Running"]>>],
                     <<>>)
      [] OTHER -> Escaped(OtherException("Unknown tool: " \o name), <<>>)

\* Requests sent to server.py.
MockUris == {"resource://cluster-info", "resource://health", "resource://node-info"}

MockToolCalls ==
    {[name |-> "get_cluster_status", arguments |-> a] :
        a \in {EmptyDict, ("cluster_name" :> "prod")}}
    \cup {[name |-> "list_pods", arguments |-> a] : a \in NamespaceDicts}
    \cup {[name |-> "get_deployments", arguments |-> EmptyDict]}

\* server.py: one resources/read request.
MockReadResource ==
    /\ Idle
    /\ deployment = "mock"
    /\ \E uri \in MockUris :
          resp' = [req |-> [server |-> "mock", kind |-> "resource", uri |-> uri],
                   out |-> mock_read_resource(uri)]
    /\ UNCHANGED <<deployment, pc, configSrc, cluster, upstream, link, snap, backlog, handling>>

\* server.py: one tools/call request.
MockCallTool ==
    /\ Idle
    /\ deployment = "mock"
    /\ \E c \in MockToolCalls :
          resp' = [req |-> [server |-> "mock", kind |-> "tool", name |-> c.name,
                            arguments |-> c.arguments],
                   out |-> mock_call_tool(c.name, c.arguments)]
    /\ UNCHANGED <<deployment, pc, configSrc, cluster, upstream, link, snap, backlog, handling>>

\* The three MCP servers: server.py has no credentials to resolve and
\* serves from the start.
InitCatalog ==
    /\ deployment \in {"http", "enhanced", "mock"}
    /\ pc = IF deployment = "mock" THEN "serving" ELSE "start"
    /\ configSrc = "unset"
    /\ cluster = EmptyCluster
    /\ upstream = "up"
    /\ link = "ok"
    /\ resp = NoResp
    /\ snap = NoSnap
    /\ backlog = <<>>
    /\ handling = {}

NextCatalog ==
    \/ LoadInCluster
    \/ LoadKubeConfig
    \/ EnhancedReadResource
    \/ EnhancedCallTool
    \/ BridgeReadResource
    \/ BridgeCallTool
    \/ MockReadResource
    \/ MockCallTool
    \/ ResponseRead
    \/ ClusterGrowsKept
    \/ ClusterRemove
    \/ UpstreamChange
    \/ LinkChange

SpecCatalog == InitCatalog /\ [][NextCatalog]_vars

(***************************************************************************)
(* Properties.                                                             *)
(***************************************************************************)
Served == resp # NoResp
HttpServed == resp.req.server = "simple"
EnhancedServed == resp.req.server = "enhanced"
BridgeServed == resp.req.server = "bridge"
EnhancedTool(name) == EnhancedServed /\ resp.req.kind = "tool" /\ resp.req.name = name
EnhancedResource(uri) == EnhancedServed /\ resp.req.kind = "resource" /\ resp.req.uri = uri
BridgeTool(name) == BridgeServed /\ resp.req.kind = "tool" /\ resp.req.name = name
HttpPath(path) == HttpServed /\ resp.req.path = path

\* The response the HTTP server wrote, and the object an MCP handler returned.
Answer == resp.out.sent[1]
Result == resp.out.result[1]

Has(d, k) == k \in DOMAIN d

\* The cluster API answers calls with listings.
ApiUp == configSrc # "none" /\ upstream = "up"

\* The namespace a namespace-scoped request is about.
RequestedNamespace ==
    IF HttpServed
    THEN IF resp.req.query = None \/ resp.req.query = Some("") THEN "default"
         ELSE resp.req.query[1]
    ELSE IF Has(resp.req.arguments, "namespace") THEN resp.req.arguments["namespace"]
    ELSE IF BridgeTool("check_pods") THEN "mcp-server"
    ELSE "default"

NamespaceExists(ns) == \E i \in 1..Len(cluster.namespaces) : cluster.namespaces[i] = ns

CountMatchesItems(body, count, items) ==
    Has(body, count) /\ Has(body, items) /\ body[count] = Len(body[items])

\* C1: in every successful listing response (nodes, pods, deployments,
\* cluster info; HTTP server and enhanced server) the count field equals
\* the number of entries of the item sequence of the same response.
C1_CountEqualsLength ==
    /\ (HttpServed /\ Answer.status = 200) =>
          /\ HttpPath("/nodes") => CountMatchesItems(Answer.body, "node_count", "nodes")
          /\ HttpPath("/pods") => CountMatchesItems(Answer.body, "pod_count", "pods")
          /\ HttpPath("/deployments") =>
                CountMatchesItems(Answer.body, "deployment_count", "deployments")
          /\ HttpPath("/cluster-info") =>
                CountMatchesItems(Answer.body, "namespace_count", "namespaces")
    /\ (EnhancedServed /\ ~resp.out.raised /\ ~Has(Result, "error")) =>
          /\ EnhancedResource("resource://node-info") =>
                CountMatchesItems(Result, "node_count", "nodes")
          /\ EnhancedResource("resource://cluster-info") =>
                CountMatchesItems(Result, "namespace_count", "namespaces")
          /\ EnhancedTool("list_pods") => CountMatchesItems(Result, "pod_count", "pods")
          /\ EnhancedTool("get_deployments") =>
                CountMatchesItems(Result, "deployment_count", "deployments")
          /\ (EnhancedTool("get_cluster_status") /\ Has(Result, "nodes")) =>
                CountMatchesItems(Result, "node_count", "nodes")

\* A node listing of two nodes, one of them not ready, was answered.
C1_Witness ==
    /\ HttpPath("/nodes")
    /\ Answer.status = 200
    /\ Answer.body.node_count = 2
    /\ \E i \in 1..2 : Answer.body.nodes[i].status = "NotReady"

NotFoundText(ns) == "Namespace '" \o ns \o "' not found"

DirectNamespaceQuery ==
    \/ HttpPath("/pods")
    \/ HttpPath("/deployments")
    \/ EnhancedTool("list_pods")
    \/ EnhancedTool("get_deployments")

\* What the caller of a direct namespace query was given.
DirectBody == IF HttpServed THEN Answer.body ELSE Result

\* C2: a pod or deployment query on a namespace the API answers 404 for is
\* given the error "Namespace '<ns>' not found" naming that namespace, and
\* in no other case (other API status, transport failure, success) is the
\* result a not-found error.
C2_NotFoundClassified ==
    DirectNamespaceQuery =>
        /\ ~resp.out.raised
        /\ (ApiUp /\ ~NamespaceExists(RequestedNamespace)) =>
              DirectBody = [error |-> NotFoundText(RequestedNamespace)]
        /\ ~(ApiUp /\ ~NamespaceExists(RequestedNamespace)) =>
              \A n \in NamespaceArgs \cup {"", "default", "kube-system"} :
                  ~(Has(DirectBody, "error") /\ DirectBody.error = NotFoundText(n))
        /\ (configSrc # "none" /\ upstream \in {"api403", "api500"}) =>
              DirectBody \in {[error |-> "API error: Forbidden"],
                              [error |-> "API error: Internal Server Error"]}

\* The pods of the missing namespace "ghost" were asked of the HTTP server.
C2_Witness ==
    /\ HttpPath("/pods")
    /\ resp.req.query = Some("ghost")
    /\ ApiUp
    /\ Answer.body = [error |-> "Namespace 'ghost' not found"]

HealthQuery == HttpPath("/health") \/ EnhancedResource("resource://health")

\* C3: the health query never raises: whatever the probe gave, the caller
\* is returned a body with a status field, healthy or unhealthy.
C3_HealthNeverRaises ==
    HealthQuery =>
        /\ ~resp.out.raised
        /\ HttpServed =>
              /\ Len(resp.out.sent) = 1
              /\ Answer.ctype = "application/json"
              /\ Has(Answer.body, "status")
              /\ Answer.body.status \in {"healthy", "unhealthy"}
        /\ EnhancedServed =>
              /\ resp.out.result # None
              /\ Has(Result, "status")
              /\ Result.status \in {"healthy", "unhealthy"}

\* The health of the HTTP server was asked while the probe timed out.
C3_Witness ==
    /\ HttpPath("/health")
    /\ configSrc # "none"
    /\ upstream = "down"
    /\ Answer.body.status = "unhealthy"

\* C4: the status is "healthy" exactly when the probe, a namespace list
\* capped at one item, succeeded; the API is reported accessible exactly
\* when the status is healthy and an error detail is present exactly when
\* it is unhealthy.
C4_HealthyIffProbeSucceeded ==
    HealthQuery =>
        /\ resp.out.calls = <<"list_namespace(limit=1)">>
        /\ Has(DirectBody, "status") /\ Has(DirectBody, "kubernetes_api")
        /\ DirectBody.status = "healthy" <=> ApiUp
        /\ DirectBody.status \in {"healthy", "unhealthy"}
        /\ DirectBody.kubernetes_api = "accessible" <=> DirectBody.status = "healthy"
        /\ DirectBody.kubernetes_api \in {"accessible", "inaccessible"}
        /\ Has(DirectBody, "error") <=> DirectBody.status = "unhealthy"

\* The health resource of the enhanced server was read while the API
\* refused the call.
C4_Witness ==
    /\ EnhancedResource("resource://health")
    /\ configSrc # "none"
    /\ upstream = "api403"
    /\ Result.status = "unhealthy"
    /\ Has(Result, "error")

\* a is b with some entries left out, the others in the same order.
IsSubseq(a, b) ==
    \E f \in [1..Len(a) -> 1..Len(b)] :
        /\ \A i \in 1..Len(a) : a[i] = b[f[i]]
        /\ \A i, j \in 1..Len(a) : i < j => f[i] < f[j]

NodeListed == BridgeTool("get_node_info") /\ Result.lead = "NODES"

\* What get_node_info reports in this state without the filter.
Unfiltered == bridge_call_tool("get_node_info", EmptyDict).result[1].entries

\* C5: the nodes get_node_info reports with include_karpenter_only are,
\* in the same order, those of the report without the filter whose
\* instance type is not "t3.medium"; none of these is dropped; without
\* the filter every node of the listing is reported; and the count in
\* the text is the number of nodes listed.
C5_FilterCorrect ==
    NodeListed =>
        /\ Result.count = Len(Result.entries)
        /\ IF Get(resp.req.arguments, "include_karpenter_only", FALSE)
           THEN /\ IsSubseq(Result.entries, Unfiltered)
                /\ \A i \in 1..Len(Result.entries) : Result.entries[i].type # "t3.medium"
                /\ \A j \in 1..Len(Unfiltered) :
                      Unfiltered[j].type # "t3.medium" =>
                          \E i \in 1..Len(Result.entries) : Result.entries[i] = Unfiltered[j]
           ELSE /\ Len(Result.entries) = Len(cluster.nodes)
                /\ \A i \in 1..Len(Result.entries) :
                      Result.entries[i].name = cluster.nodes[i].name

\* The filter left one of two nodes out.
C5_Witness ==
    /\ NodeListed
    /\ Get(resp.req.arguments, "include_karpenter_only", FALSE)
    /\ Len(cluster.nodes) = 2
    /\ Len(Result.entries) = 1

ServedByVariant ==
    ~(BridgeServed /\ resp.req.kind = "resource"
      /\ resp.req.uri \notin {"resource://cluster-status", "resource://pod-status"})

\* C7: no adapter failure leaves a request handler: every request the
\* variant serves returns a result, which may describe the error, and the
\* server goes on serving.
C7_NoFailureEscapes ==
    (Served /\ ServedByVariant) =>
        /\ ~resp.out.raised
        /\ IF HttpServed THEN Len(resp.out.sent) = 1 ELSE resp.out.result # None
        /\ pc = "serving"
        /\ ENABLED ResponseRead

\* The enhanced server was asked for the cluster status while the API
\* could not be reached.
C7_Witness ==
    /\ EnhancedTool("get_cluster_status")
    /\ configSrc # "none"
    /\ upstream = "down"
    /\ Has(Result, "error")

\* The call the handler of a path makes succeeded.
UpstreamSucceeded ==
    /\ ApiUp
    /\ (HttpPath("/pods") \/ HttpPath("/deployments")) => NamespaceExists(RequestedNamespace)

\* C8: on the paths /cluster-info, /nodes, /pods and /deployments every
\* error is answered 500 with a JSON body holding an "error" key, the
\* missing namespace included (500, not 404); a 200 is answered only if
\* the call to the cluster succeeded.
C8_ErrorsAre500 ==
    /\ (HttpServed /\ resp.req.path \in {"/cluster-info", "/nodes", "/pods", "/deployments"}) =>
          /\ Answer.status \in {200, 500}
          /\ Answer.status = 500 =>
                Answer.ctype = "application/json" /\ Has(Answer.body, "error")
          /\ Answer.status = 200 => ~Has(Answer.body, "error")
          /\ ~UpstreamSucceeded => Answer.status = 500
    /\ (HttpServed /\ Answer.status = 200) => UpstreamSucceeded

\* The deployments of the missing namespace "ghost" were asked for.
C8_Witness ==
    /\ HttpPath("/deployments")
    /\ resp.req.query = Some("ghost")
    /\ ApiUp
    /\ Answer.status = 500
    /\ Answer.body = [error |-> "Namespace 'ghost' not found"]

\* C9: a GET on a path other than /health, /cluster-info, /nodes, /pods
\* and /deployments is answered 404 and calls the cluster not at all; a
\* GET on one of the five is never answered 404, whatever its query.
C9_UnknownPathIs404 ==
    HttpServed =>
        IF resp.req.path \in {"/health", "/cluster-info", "/nodes", "/pods", "/deployments"}
        THEN \A i \in 1..Len(resp.out.sent) : resp.out.sent[i].status # 404
        ELSE /\ Len(resp.out.sent) = 1
             /\ Answer.status = 404
             /\ resp.out.calls = <<>>

\* "/pods/" with a namespace parameter was asked for.
C9_Witness ==
    /\ HttpPath("/pods/")
    /\ resp.req.query = Some("ghost")
    /\ Answer.status = 404

\* The namespace asked about exists and holds none of the objects.
ExistsAndEmpty(objects) ==
    /\ ApiUp
    /\ NamespaceExists(RequestedNamespace)
    /\ \A i \in 1..Len(objects) : objects[i].namespace # RequestedNamespace

\* C10: for a namespace that exists and holds no pods (no deployments)
\* the query succeeds with count 0, an empty list and the namespace asked
\* for, and the bridge reports it as a normal text with the note that
\* nothing was found, not as a failure.
C10_EmptyIsNotAnError ==
    /\ (HttpPath("/pods") /\ ExistsAndEmpty(cluster.pods)) =>
          /\ Answer.status = 200
          /\ Answer.body = [namespace |-> RequestedNamespace, pod_count |-> 0, pods |-> <<>>]
    /\ (HttpPath("/deployments") /\ ExistsAndEmpty(cluster.deployments)) =>
          /\ Answer.status = 200
          /\ Answer.body = [namespace |-> RequestedNamespace, deployment_count |-> 0,
                            deployments |-> <<>>]
    /\ (EnhancedTool("list_pods") /\ ExistsAndEmpty(cluster.pods)) =>
          Result = [namespace |-> RequestedNamespace, pod_count |-> 0, pods |-> <<>>]
    /\ (EnhancedTool("get_deployments") /\ ExistsAndEmpty(cluster.deployments)) =>
          Result = [namespace |-> RequestedNamespace, deployment_count |-> 0,
                    deployments |-> <<>>]
    /\ (BridgeTool("check_pods") /\ link = "ok" /\ ExistsAndEmpty(cluster.pods)) =>
          Result = [lead |-> "PODS", namespace |-> RequestedNamespace, count |-> 0,
                    empty_note |-> TRUE, entries |-> <<>>]
    /\ (BridgeTool("get_deployments") /\ link = "ok"
        /\ ExistsAndEmpty(cluster.deployments)) =>
          Result = [lead |-> "ROCKET", namespace |-> RequestedNamespace, count |-> 0,
                    empty_note |-> TRUE, entries |-> <<>>]

\* The bridge checked the pods of "mcp-server", which exists and is empty,
\* while "default" holds a pod.
C10_Witness ==
    /\ BridgeTool("check_pods")
    /\ resp.req.arguments = EmptyDict
    /\ NamespaceExists("mcp-server")
    /\ Len(cluster.pods) = 1
    /\ Result.lead = "PODS"
    /\ Result.empty_note

\* The pods of the namespace asked about, in listing order.
PodsAskedFor == SelectSeq(cluster.pods, LAMBDA p : p.namespace = RequestedNamespace)

LacksLabel(node, label) == node.labels = None \/ ~Has(node.labels[1], label)

\* C11: while the cluster API answers, the node listing succeeds whatever
\* labels or conditions a node lacks and reports "unknown" for a missing
\* instance-type or zone label, and the pod listing succeeds with ready 0
\* and restart_count 0 for a pod without conditions or container statuses.
C11_PlaceholderNotError ==
    /\ (HttpPath("/nodes") /\ ApiUp) =>
          /\ Answer.status = 200
          /\ Has(Answer.body, "nodes")
          /\ Len(Answer.body.nodes) = Len(cluster.nodes)
          /\ \A i \in 1..Len(cluster.nodes) :
                /\ LacksLabel(cluster.nodes[i], InstanceTypeLabel) =>
                      Answer.body.nodes[i].instance_type = "unknown"
                /\ LacksLabel(cluster.nodes[i], ZoneLabel) =>
                      Answer.body.nodes[i].zone = "unknown"
    /\ (HttpPath("/pods") /\ ApiUp /\ NamespaceExists(RequestedNamespace)) =>
          /\ Answer.status = 200
          /\ Has(Answer.body, "pods")
          /\ Len(Answer.body.pods) = Len(PodsAskedFor)
          /\ \A i \in 1..Len(PodsAskedFor) :
                /\ PodsAskedFor[i].conditions = None => Answer.body.pods[i].ready = 0
                /\ PodsAskedFor[i].container_statuses = None =>
                      Answer.body.pods[i].restart_count = 0

\* The namespace the HTTP server lists for the request: a blank namespace
\* parameter is dropped by the query parser.
EffectiveNamespace == IF RequestedNamespace = "" THEN "default" ELSE RequestedNamespace

\* The deployments of the namespace asked about, in listing order.
DeploymentsAskedFor ==
    SelectSeq(cluster.deployments, LAMBDA d : d.namespace = EffectiveNamespace)

\* A replica count of the API object, 0 when absent.
CountOrZero(opt) == IF opt = None THEN 0 ELSE opt[1]

\* C12: a deployment's absent ready or available replica count is reported
\* as 0, and the bridge marks a deployment fully available exactly when its
\* ready and its available count both equal the desired count; replicas 3
\* with 2 ready is written as ready 2, desired 3 and marked with the warning.
C12_ReplicaDefaultsAndMark ==
    /\ (HttpPath("/deployments") /\ Answer.status = 200) =>
          /\ Len(Answer.body.deployments) = Len(DeploymentsAskedFor)
          /\ \A i \in 1..Len(DeploymentsAskedFor) :
                /\ Answer.body.deployments[i].replicas = DeploymentsAskedFor[i].replicas
                /\ Answer.body.deployments[i].ready_replicas =
                      CountOrZero(DeploymentsAskedFor[i].ready_replicas)
                /\ Answer.body.deployments[i].available_replicas =
                      CountOrZero(DeploymentsAskedFor[i].available_replicas)
    /\ (BridgeTool("get_deployments") /\ Result.lead = "ROCKET") =>
          /\ Len(Result.entries) = Len(DeploymentsAskedFor)
          /\ \A i \in 1..Len(DeploymentsAskedFor) :
                /\ Result.entries[i].desired = DeploymentsAskedFor[i].replicas
                /\ Result.entries[i].ready =
                      CountOrZero(DeploymentsAskedFor[i].ready_replicas)
                /\ Result.entries[i].available =
                      CountOrZero(DeploymentsAskedFor[i].available_replicas)
                /\ Result.entries[i].emoji \in {"CHECK", "WARNING"}
                /\ Result.entries[i].emoji = "CHECK" <=>
                      /\ CountOrZero(DeploymentsAskedFor[i].ready_replicas) =
                            DeploymentsAskedFor[i].replicas
                      /\ CountOrZero(DeploymentsAskedFor[i].available_replicas) =
                            DeploymentsAskedFor[i].replicas

\* The bridge reported "web" (3 desired, 2 ready) and "batch" (no counts yet).
C12_Witness ==
    /\ BridgeTool("get_deployments")
    /\ Result.lead = "ROCKET"
    /\ \E i \in 1..Len(Result.entries) :
          Result.entries[i] = [emoji |-> "WARNING", name |-> "web", desired |-> 3,
                               ready |-> 2, available |-> 2]
    /\ \E i \in 1..Len(Result.entries) :
          Result.entries[i] = [emoji |-> "WARNING", name |-> "batch", desired |-> 1,
                               ready |-> 0, available |-> 0]

\* C13: the cluster-info query returns the namespace names of the listing
\* read during the request, in the order of the listing, and their number;
\* cluster_name and region are the configured values (the defaults of the
\* environment) whatever the cluster holds.
C13_ClusterInfoLive ==
    /\ (HttpPath("/cluster-info") /\ ApiUp) =>
          /\ resp.out.calls = <<"list_namespace">>
          /\ Answer.status = 200
          /\ Answer.body = [cluster_name |-> "mcp-eks-cluster", region |-> "us-east-1",
                            namespace_count |-> Len(cluster.namespaces),
                            namespaces |-> cluster.namespaces]
    /\ (EnhancedResource("resource://cluster-info") /\ ApiUp) =>
          /\ resp.out.calls = <<"list_namespace">>
          /\ Result = [cluster_name |-> "mcp-eks-cluster", region |-> "us-west-2",
                       namespace_count |-> Len(cluster.namespaces),
                       server_version |-> "1.28",
                       namespaces |-> cluster.namespaces]

\* The three namespaces default, kube-system, mcp-server were reported.
C13_Witness ==
    /\ HttpPath("/cluster-info")
    /\ cluster.namespaces = <<"default", "kube-system", "mcp-server">>
    /\ Answer.status = 200
    /\ Answer.body.namespace_count = 3
    /\ Answer.body.namespaces = <<"default", "kube-system", "mcp-server">>

\* C14: every response the HTTP server sends carries the header
\* Access-Control-Allow-Origin: *, the 404 of an unknown path and the 500 of
\* a raising handler included.
C14_CorsOnEveryResponse ==
    HttpServed => \A i \in 1..Len(resp.out.sent) : resp.out.sent[i].cors

\* What the HTTP server answers for a path and query in this state, as the
\* bridge's call sees it: an error when the transport is down or the status
\* is not a success.
HttpCallFails(path, query) ==
    link # "ok" \/ do_GET(path, query).sent[1].status >= 400

\* One of the HTTP calls made for the bridge tool just served failed.
SomeCallFailed ==
    \/ BridgeTool("check_cluster_health")
       /\ \E p \in {"/health", "/cluster-info", "/nodes"} : HttpCallFails(p, None)
    \/ BridgeTool("get_node_info") /\ HttpCallFails("/nodes", None)
    \/ BridgeTool("check_pods") /\ HttpCallFails("/pods", Some(RequestedNamespace))
    \/ BridgeTool("get_deployments")
       /\ HttpCallFails("/deployments", Some(RequestedNamespace))

\* C15: when an HTTP call made for a bridge tool returns an error, the text
\* returned starts with the failure mark; a text starting with the success
\* mark is returned only if every call of the tool succeeded.
C15_FailureMarkOnAnyError ==
    SomeCallFailed => Result.lead = "CROSS"

\* The error body the HTTP server answers the namespace query of the bridge
\* tool just served with (the empty dict when it answers a listing).
ServerErrorBody ==
    IF BridgeTool("check_pods")
    THEN do_GET("/pods", Some(RequestedNamespace)).sent[1].body
    ELSE do_GET("/deployments", Some(RequestedNamespace)).sent[1].body

\* C16: when the HTTP server answers the pods or deployments query of the
\* bridge with an error body, the failure text of check_pods /
\* get_deployments carries that message as its detail, so a missing
\* namespace and a failing API give different texts.
C16_ErrorMessageVerbatim ==
    ((BridgeTool("check_pods") \/ BridgeTool("get_deployments"))
     /\ link = "ok" /\ Has(ServerErrorBody, "error")) =>
        /\ Result.lead = "CROSS"
        /\ Result.detail = ServerErrorBody.error

\* The cluster calls of the servers, as they answer in this state.
ClusterCallResults ==
    {list_namespace(0), list_namespace(1), list_node}
    \cup {list_namespaced_pod(n) : n \in NamespaceArgs}
    \cup {list_namespaced_deployment(n) : n \in NamespaceArgs}

\* C17: once both the in-cluster configuration and the kubeconfig file
\* failed to load, every cluster call fails, and fails as a configuration
\* error: not as an API error (not-found included) nor as the generic
\* exception of a transport failure.
C17_DegradedIsConfigurationError ==
    (pc = "serving" /\ configSrc = "none") =>
        \A r \in ClusterCallResults :
            /\ r.tag # "ok"
            /\ r.tag = "ConfigurationError"

\* C18: the credentials are resolved in one ordered step: the in-cluster
\* configuration is tried first, the kubeconfig file only after it failed;
\* the step runs once and is over before the first request is served, and
\* serving a request never changes what was resolved.
C18_InitOnceBeforeServing ==
    [][ /\ configSrc' # configSrc =>
              /\ configSrc = "unset"
              /\ pc \in {"start", "fallback"}
              /\ pc' = "serving"
              /\ resp = NoResp /\ resp' = NoResp
        /\ (configSrc' = "incluster" /\ configSrc # "incluster") => pc = "start"
        /\ (configSrc' \in {"kubeconfig", "none"} /\ configSrc' # configSrc) =>
              pc = "fallback"
        /\ (pc' = "fallback" /\ pc # "fallback") => (pc = "start" /\ configSrc' = "unset")
        /\ pc = "serving" =>
              /\ pc' = "serving"
              /\ configSrc' = configSrc
              /\ configSrc \in {"incluster", "kubeconfig", "none"}
        /\ resp' # resp => pc = "serving"
      ]_vars

\* A request was served with the credentials of the kubeconfig file.
C18_Witness ==
    /\ pc = "serving"
    /\ configSrc = "kubeconfig"
    /\ Served
    /\ ~resp.out.raised

\* C19: the HTTP server handles its requests one after the other: at most
\* one request is in progress, a handler (and with it its cluster call)
\* starts only when no earlier request is still being handled, it is the
\* oldest waiting request that is taken, and the response written is that
\* of the request in progress; this for every order of arrival.
C19_Serial ==
    [][ /\ Cardinality(handling) <= 1
        /\ Cardinality(handling') <= 1
        /\ (handling' # handling /\ handling' # {}) =>
              /\ handling = {}
              /\ backlog # <<>>
              /\ \A h \in handling' : h.req = Head(backlog)
              /\ backlog' = Tail(backlog)
        /\ (handling' # handling /\ handling' = {}) =>
              /\ \A h \in handling : resp'.req.path = h.req.path /\ resp'.out = h.out
              /\ backlog' = backlog
      ]_vars

\* Two requests wait while a third is being handled.
C19_Witness ==
    /\ Cardinality(handling) = 1
    /\ Len(backlog) = 2
    /\ backlog[1] # backlog[2]
    /\ \A h \in handling : h.req # backlog[1]

Names(objects) == [i \in 1..Len(objects) |-> objects[i].name]

\* The cluster calls a GET on a path makes, in order.
CallsOf(path) ==
    CASE path = "/health" -> <<"list_namespace(limit=1)">>
      [] path = "/cluster-info" -> <<"list_namespace">>
      [] path = "/nodes" -> <<"list_node">>
      [] path = "/pods" -> <<"list_namespaced_pod">>
      [] path = "/deployments" -> <<"list_namespaced_deployment">>
      [] OTHER -> <<>>

\* The paths a bridge request asks the HTTP server for, in order.
PathsOf(req) ==
    IF req.kind = "resource"
    THEN CASE req.uri = "resource://cluster-status" -> <<"/cluster-info", "/nodes", "/health">>
           [] req.uri = "resource://pod-status" -> <<"/pods", "/pods", "/pods">>
           [] OTHER -> <<>>
    ELSE CASE req.name = "check_cluster_health" -> <<"/health", "/cluster-info", "/nodes">>
           [] req.name = "get_node_info" -> <<"/nodes">>
           [] req.name = "check_pods" -> <<"/pods">>
           [] req.name = "get_deployments" -> <<"/deployments">>
           [] OTHER -> <<>>

RECURSIVE CallsOfAll(_)
CallsOfAll(paths) ==
    IF paths = <<>> THEN <<>> ELSE CallsOf(Head(paths)) \o CallsOfAll(Tail(paths))

\* C20: every request reads the cluster anew: it makes the cluster call of
\* its query once, a failed call included (no retry), and a successful
\* answer lists what the cluster holds at the time of the request, so that
\* after a change of the cluster the next answer shows the new state.
C20_FreshRead ==
    /\ HttpServed =>
          /\ resp.out.calls = CallsOf(resp.req.path)
          /\ (HttpPath("/cluster-info") /\ Answer.status = 200) =>
                Answer.body.namespaces = cluster.namespaces
          /\ (HttpPath("/nodes") /\ Answer.status = 200) =>
                Names(Answer.body.nodes) = Names(cluster.nodes)
          /\ (HttpPath("/pods") /\ Answer.status = 200) =>
                Names(Answer.body.pods) = Names(PodsAskedFor)
          /\ (HttpPath("/deployments") /\ Answer.status = 200) =>
                Names(Answer.body.deployments) = Names(DeploymentsAskedFor)
    /\ BridgeServed =>
          /\ resp.out.calls = IF link = "ok" THEN CallsOfAll(PathsOf(resp.req)) ELSE <<>>
          /\ (BridgeTool("get_node_info") /\ Result.lead = "NODES"
              /\ ~Get(resp.req.arguments, "include_karpenter_only", FALSE)) =>
                Names(Result.entries) = Names(cluster.nodes)
          /\ (BridgeTool("check_pods") /\ Result.lead = "PODS") =>
                Names(Result.entries) =
                   Names(SelectSeq(cluster.pods, LAMBDA p : p.namespace = EffectiveNamespace))
          /\ (BridgeTool("get_deployments") /\ Result.lead = "ROCKET") =>
                Names(Result.entries) = Names(DeploymentsAskedFor)
    /\ (EnhancedServed /\ ~resp.out.raised /\ ~Has(Result, "error")) =>
          /\ EnhancedResource("resource://cluster-info") =>
                Result.namespaces = cluster.namespaces
          /\ EnhancedResource("resource://node-info") =>
                Names(Result.nodes) = Names(cluster.nodes)
          /\ EnhancedTool("list_pods") => Names(Result.pods) = Names(PodsAskedFor)
          /\ EnhancedTool("get_deployments") =>
                Names(Result.deployments) = Names(DeploymentsAskedFor)

\* The bridge listed the pods of "default" after a pod had been added and
\* the namespace "mcp-server" created, with one cluster call.
C20_Witness ==
    /\ BridgeTool("check_pods")
    /\ resp.req.arguments = ("namespace" :> "default")
    /\ cluster.namespaces = <<"default", "mcp-server">>
    /\ Names(cluster.pods) = <<"job-1">>
    /\ resp.out.calls = <<"list_namespaced_pod">>
    /\ Result.lead = "PODS"
    /\ Names(Result.entries) = <<"job-1">>

\* The operations of the Kubernetes client that only read.
ReadOperations ==
    {"list_namespace(limit=1)", "list_namespace", "list_node", "list_namespaced_pod",
     "list_namespaced_deployment"}

\* C21: serving a request, whatever its path, tool, resource or arguments
\* and whether it succeeds or fails, leaves the cluster (namespaces, nodes,
\* pods, deployments) and the state of the server as they were, and the
\* only calls it sends to the cluster are list operations.
C21_ReadOnly ==
    [][ (resp' # resp /\ resp' # NoResp) =>
            /\ cluster' = cluster
            /\ configSrc' = configSrc
            /\ pc' = pc
            /\ upstream' = upstream
            /\ link' = link
            /\ \A i \in 1..Len(resp'.out.calls) : resp'.out.calls[i] \in ReadOperations
      ]_vars

\* A failing and unknown namespace query was served by the enhanced server
\* while the cluster holds a node, a pod and a second namespace.
C21_Witness ==
    /\ EnhancedTool("get_deployments")
    /\ resp.req.arguments = ("namespace" :> "ghost")
    /\ Has(Result, "error")
    /\ resp.out.calls = <<"list_namespaced_deployment">>
    /\ Len(cluster.namespaces) = 2
    /\ Len(cluster.pods) = 1

\* What the cluster call of the GET just served answered: "none" for a path
\* that makes no call.
UpstreamOutcome ==
    IF resp.out.calls = <<>> THEN "none"
    ELSE IF configSrc = "none" \/ upstream = "down" THEN "exception"
    ELSE IF upstream \in {"api403", "api500"} THEN "api-other"
    ELSE IF (HttpPath("/pods") \/ HttpPath("/deployments"))
            /\ ~NamespaceExists(RequestedNamespace) THEN "api-404"
    ELSE "success"

\* C22: every GET, whatever its path and whatever the cluster call
\* answers (a listing, an ApiException with status 404 or another status,
\* any other exception), is sent exactly one response status: none is
\* left unanswered and none gets a success status followed by an error.
C22_ExactlyOneStatus ==
    HttpServed =>
        /\ Len(resp.out.sent) = 1
        /\ ~resp.out.raised
        /\ Answer.status \in {200, 404, 500}
        /\ UpstreamOutcome = "none" => Answer.status = 404
        /\ UpstreamOutcome \in {"api-404", "api-other", "exception"} => Answer.status = 500
        /\ ~(\E i, j \in 1..Len(resp.out.sent) :
                i < j /\ resp.out.sent[i].status = 200 /\ resp.out.sent[j].status >= 400)

\* A deployments query was answered once while the API refused the call.
C22_Witness ==
    /\ HttpPath("/deployments")
    /\ UpstreamOutcome = "api-other"
    /\ Len(resp.out.sent) = 1
    /\ Answer.status = 500
    /\ Answer.body = [error |-> "API error: Forbidden"]

\* The catalog of the server that served the request.
AdvertisedTools ==
    CASE resp.req.server = "enhanced" -> enhanced_list_tools
      [] resp.req.server = "bridge" -> bridge_list_tools
      [] resp.req.server = "mock" -> mock_list_tools
      [] OTHER -> {}

AdvertisedResources ==
    CASE resp.req.server = "enhanced" -> enhanced_list_resources
      [] resp.req.server = "bridge" -> bridge_list_resources
      [] resp.req.server = "mock" -> mock_list_resources
      [] OTHER -> {}

\* The handler raised, or returned an error object or a failure text.
ErrorOutcome ==
    \/ resp.out.raised
    \/ Has(Result, "error")
    \/ (Has(Result, "lead") /\ Result.lead = "CROSS")

\* The outcome of the last branch of a dispatcher: the name is not known.
UnknownOutcome(text) ==
    \/ resp.out.raised /\ resp.out.exc[1].msg = text
    \/ ~resp.out.raised /\ Has(Result, "error") /\ Result.error = text
    \/ /\ ~resp.out.raised
       /\ Has(Result, "lead")
       /\ Result.lead = "CROSS"
       /\ Result.what \o Result.detail = text

\* C23: in server.py, server-enhanced.py and the bridge the catalog and the
\* dispatcher agree: a tool name of list_tools and a resource URI of
\* list_resources is handled by a branch of its own, never by the last
\* branch for unknown names; a name or URI that is not advertised ends in an
\* error (raised, or an error object or failure text) without any call to
\* the cluster or the HTTP server.
C23_CatalogMatchesDispatch ==
    (Served /\ resp.req.server \in {"enhanced", "bridge", "mock"}) =>
        /\ resp.req.kind = "tool" =>
              IF resp.req.name \in AdvertisedTools
              THEN /\ ~UnknownOutcome("Unknown tool: " \o resp.req.name)
                   /\ resp.req.server = "mock" => ~ErrorOutcome
              ELSE /\ ErrorOutcome
                   /\ UnknownOutcome("Unknown tool: " \o resp.req.name)
                   /\ resp.out.calls = <<>>
        /\ resp.req.kind = "resource" =>
              IF resp.req.uri \in AdvertisedResources
              THEN /\ ~UnknownOutcome("Unknown resource: " \o resp.req.uri)
                   /\ resp.req.server = "mock" => ~ErrorOutcome
              ELSE /\ ErrorOutcome
                   /\ UnknownOutcome("Unknown resource: " \o resp.req.uri)
                   /\ resp.out.calls = <<>>

\* server.py was asked for get_deployments, a tool of the two other servers.
C23_Witness ==
    /\ Served
    /\ resp.req.server = "mock"
    /\ resp.req.kind = "tool"
    /\ resp.req.name = "get_deployments"
    /\ resp.out.raised
    /\ resp.out.calls = <<>>
    /\ Len(cluster.nodes) = 1

====
